---- MODULE Spec2Model ----
(***************************************************************************)
(* A model of cachemap.CacheMap[K, V]: a Go map guarded by a sync.RWMutex, *)
(* with locked and WithoutLock variants of every operation, Import/Export  *)
(* and gob encoding.                                                       *)
(*                                                                         *)
(* Maps are Go reference values, so the model keeps a heap of map objects  *)
(* and the container's field cm.m is a reference into it (or nil).         *)
(***************************************************************************)
EXTENDS Integers, Sequences, FiniteSets, TLC

\* ---------------------------------------------------------------- bounds
MaxKey == 2
MaxVal == 1
MaxMaps == 3
NThreads == 3

\* ------------------------------------------------------------ value space
Keys == 1..MaxKey
\* the zero value of V, returned by a lookup that misses
Zero == 0
\* a value of V that encoding/gob cannot serialise (a chan or func held in V)
Opaque == 0 - 1
Vals == (0..MaxVal) \cup {Opaque}
Serializable(v) == v # Opaque
\* the nil map reference
Nil == 0
MapIds == 1..MaxMaps
Threads == 1..NThreads
NoThread == 0
\* the threads that call the whole set of operations where the others stay out
Callers == 1..(NThreads - 1)

\* a Go map value: a function from the keys present to their values
EmptyMap == [k \in {} |-> Zero]
Maps == UNION {[S -> Vals] : S \in SUBSET Keys}
SerMaps == {m \in Maps : \A k \in DOMAIN m : Serializable(m[k])}

VARIABLES
    heap,      \* the map objects: heap[i] is the value of map object i
    cm_m,      \* the field cm.m: a map reference or Nil
    ext,       \* the caller's own map variable: a map reference or Nil
    extKind,   \* how the caller got ext: "none", "made", "exported", "imported"
    expSnap,   \* what the caller last saw in the mapping Export returned
    last,      \* the last call of the sequential caller and what it returned
    refm,      \* the mapping the calls made so far should have left
    buf,       \* the bytes the caller holds, to hand to GobDecode
    wOwner,    \* RWMutex.w: the thread that holds the writers' mutex
    excl,      \* threads that returned from Lock() and have not unlocked
    rcount,    \* rcount[t]: shared holds of thread t
    pc,        \* pc[t]: where thread t is inside its current call
    call,      \* call[t]: the operation thread t is running and its result
    snap,      \* snap[t]: the contents when t entered its critical section
    held       \* held[t]: the lock thread t took explicitly ("none", "excl", "shared")

heapVars == <<heap, cm_m, ext, extKind, expSnap>>
lockVars == <<wOwner, excl, rcount>>
threadVars == <<pc, call, snap, held>>
vars == <<heap, cm_m, ext, extKind, expSnap, last, refm, buf, wOwner, excl, rcount, pc, call, snap, held>>

\* ----------------------------------------------------------- map objects
\* what a read of the map behind reference r sees; a nil map reads as empty
Deref(h, r) == IF r = Nil THEN EmptyMap ELSE h[r]
Contents == Deref(heap, cm_m)

\* m[k] = v
MapAssign(m, k, v) == [x \in (DOMAIN m) \cup {k} |-> IF x = k THEN v ELSE m[x]]
\* delete(m, k)
MapDelete(m, k) == [x \in (DOMAIN m) \ {k} |-> m[x]]
\* v, ok = m[k]
MapLookup(m, k) == IF k \in DOMAIN m THEN <<m[k], TRUE>> ELSE <<Zero, FALSE>>
\* len(m)
MapLen(m) == Cardinality(DOMAIN m)

\* make(map[K]V): the first map object that none of the references still
\* live after the call (roots) refers to
Fresh(roots) == CHOOSE i \in MapIds : i \notin roots /\ \A j \in MapIds : j < i => j \in roots
\* map objects no root refers to are garbage; they are kept empty
Collect(h, roots) == [i \in MapIds |-> IF i \in roots THEN h[i] ELSE EmptyMap]

\* ---------------------------------------------------------- encoding/gob
\* The byte sequence is a sequence of tokens. One gob message is
\*   <<length, type id, count, k1, v1, ..., kn, vn>>
\* where length counts the tokens that follow it.
MapTag == 64
\* a token no key and no value decodes from
Bad == 0 - 2

RECURSIVE Perms(_)
\* the orders in which a range over a Go map may visit the keys S
Perms(S) == IF S = {} THEN {<<>>}
            ELSE UNION {{<<x>> \o p : p \in Perms(S \ {x})} : x \in S}

RECURSIVE Pairs(_, _)
\* encodeMap: key, element, key, element, ... in iteration order ord
Pairs(m, ord) == IF ord = <<>> THEN <<>>
                 ELSE <<Head(ord), m[Head(ord)]>> \o Pairs(m, Tail(ord))

\* encoder.Encode(cm.m) when it succeeds, for the iteration order ord
EncodeBytes(m, ord) == <<2 + 2 * Len(ord), MapTag, Len(ord)>> \o Pairs(m, ord)
\* encoder.Encode(cm.m) fails when an element cannot be serialised
EncodeFails(m) == \E k \in DOMAIN m : ~Serializable(m[k])
\* every byte sequence GobEncode may return for contents m
Encodings(m) == IF EncodeFails(m) THEN {} ELSE {EncodeBytes(m, ord) : ord \in Perms(DOMAIN m)}

\* a decoder that reads the entries and stores none of them
DecodeEntriesDropped(m, rest, n) == [err |-> FALSE, m |-> m]

RECURSIVE DecodeEntries(_, _, _)
\* decodeMap's loop: n times decode a key and an element and store them in
\* the destination map m; a decoding error stops the loop where it is
DecodeEntries(m, rest, n) ==
    IF n = 0 THEN [err |-> FALSE, m |-> m]
    ELSE IF Len(rest) < 1 \/ Head(rest) \notin Keys THEN [err |-> TRUE, m |-> m]
    ELSE IF Len(rest) < 2 \/ rest[2] \notin (0..MaxVal) THEN [err |-> TRUE, m |-> m]
    ELSE DecodeEntries(MapAssign(m, rest[1], rest[2]), SubSeq(rest, 3, Len(rest)), n - 1)

\* decoder.Decode(&cm.m) on the destination map m (the empty map stands for a
\* nil destination). alloc: the decoder reached the map value, where it
\* allocates a map for a nil destination.
DecodeValue(m, data) ==
    IF Len(data) = 0 THEN [err |-> TRUE, m |-> m, alloc |-> FALSE]
    ELSE IF data[1] \notin Nat \/ Len(data) - 1 < data[1]
        THEN [err |-> TRUE, m |-> m, alloc |-> FALSE]
    ELSE LET body == SubSeq(data, 2, 1 + data[1]) IN
        IF Len(body) < 1 \/ body[1] # MapTag
            THEN [err |-> TRUE, m |-> m, alloc |-> FALSE]
        ELSE IF Len(body) < 2 \/ body[2] \notin Nat
            THEN [err |-> TRUE, m |-> m, alloc |-> FALSE]
        ELSE LET r == DecodeEntries(m, SubSeq(body, 3, Len(body)), body[2])
             IN [err |-> r.err, m |-> r.m, alloc |-> TRUE]

\* the byte sequences handed to GobDecode: what GobEncode returns, and those
\* bytes truncated, with one token damaged, or with the count raised
ValidBytes == UNION {Encodings(m) : m \in SerMaps}
Truncated == UNION {{SubSeq(d, 1, n) : n \in 0..(Len(d) - 1)} : d \in ValidBytes}
Damaged == UNION {{[d EXCEPT ![i] = Bad] : i \in 1..Len(d)} : d \in ValidBytes}
Inflated == {[d EXCEPT ![3] = @ + 1] : d \in ValidBytes}
DecodeInputs == ValidBytes \cup Truncated \cup Damaged \cup Inflated
\* the messages of at most one entry, whole or with the count raised
ShortInputs == {d \in ValidBytes \cup Inflated : Len(d) <= 5}

\* ------------------------------------------------- the sequential caller
\* One caller, no other thread: a locked operation takes the guard, runs the
\* WithoutLock body and releases the guard (the deferred Unlock/RUnlock)
\* inside one action, so the guard is free before and after it.
GuardFree == wOwner = NoThread /\ excl = {} /\ \A t \in Threads : rcount[t] = 0

NoCall == [op |-> "none", key |-> 0, val |-> 0, ok |-> FALSE, err |-> FALSE, n |-> 0,
           data |-> <<>>, arg |-> EmptyMap, pre |-> EmptyMap, panic |-> FALSE,
           wrote |-> FALSE]

\* the call record of an operation on key k started on contents m
Started(name, m, k) == [NoCall EXCEPT !.op = name, !.key = k, !.pre = m]

\* what a thread inside the guard takes the contents to be
Snapshot(h, c) == [m |-> Deref(h, c), ref |-> c]
NoSnap == [m |-> EmptyMap, ref |-> Nil]

\* store the new heap with roots c (cm.m) and e (the caller's variable)
Commit(h, c, e) ==
    /\ heap' = Collect(h, {c, e} \ {Nil})
    /\ cm_m' = c
    /\ ext' = e

\* the caller's view of an exported mapping after the heap became h
SeenAfter(h, e, kind) == IF kind = "exported" THEN Deref(h, e) ELSE EmptyMap

\* cm.m[key] = value; an assignment to an entry of a nil map panics
SetWithoutLock(h, c, key, value) ==
    IF c = Nil THEN [heap |-> h, panic |-> TRUE]
    ELSE [heap |-> [h EXCEPT ![c] = MapAssign(h[c], key, value)], panic |-> FALSE]

\* clear(cm.m) in place of delete(cm.m, key)
DeleteEverything(h, c, key) == IF c = Nil THEN h ELSE [h EXCEPT ![c] = EmptyMap]

\* delete(cm.m, key); a delete on a nil map is a no-op
DeleteWithoutLock(h, c, key) ==
    IF c = Nil THEN h ELSE [h EXCEPT ![c] = MapDelete(h[c], key)]

\* value, ok = cm.m[key]
GetWithoutLock(h, c, key) == MapLookup(Deref(h, c), key)

\* len(cm.m)
LenWithoutLock(h, c) == MapLen(Deref(h, c))

\* clear(cm.m) in place of a new map: a nil map stays nil
ClearInPlace(h, c, roots) ==
    [heap |-> IF c = Nil THEN h ELSE [h EXCEPT ![c] = EmptyMap], ref |-> c]

\* cm.m = make(map[K]V): a new map object; the old one is left as it is
ClearWithoutLock(h, c, roots) ==
    LET new == Fresh(roots) IN [heap |-> [h EXCEPT ![new] = EmptyMap], ref |-> new]

\* the entries moved to the new map in place of copied
ExportMoved(h, c, roots) ==
    LET new == Fresh(roots)
    IN [heap |-> [i \in MapIds |-> IF i = new THEN Deref(h, c)
                                   ELSE IF i = c THEN EmptyMap ELSE h[i]],
        ref |-> new]

\* return cm.m in place of a copy of it
ExportShared(h, c, roots) == [heap |-> h, ref |-> c]

\* maps.Collect(maps.All(cm.m)): a new map object holding a copy of the entries
ExportWithoutLock(h, c, roots) ==
    LET new == Fresh(roots) IN [heap |-> [h EXCEPT ![new] = Deref(h, c)], ref |-> new]

\* a value receiver: the assignment is lost on return
ImportLost(h, c, m) == c

\* cm.m = m: the container takes the reference it is given
ImportWithoutLock(h, c, m) == m

Set(key, value) ==
    /\ GuardFree
    /\ LET r == SetWithoutLock(heap, cm_m, key, value) IN
        /\ Commit(r.heap, cm_m, ext)
        /\ last' = [Started("Set", Contents, key) EXCEPT !.val = value, !.panic = r.panic]
    /\ UNCHANGED <<extKind, expSnap, lockVars, threadVars>>
    /\ refm' = MapAssign(refm, key, value)
    /\ UNCHANGED buf

Delete(key) ==
    /\ GuardFree
    /\ Commit(DeleteWithoutLock(heap, cm_m, key), cm_m, ext)
    /\ last' = Started("Delete", Contents, key)
    /\ UNCHANGED <<extKind, expSnap, lockVars, threadVars>>
    /\ refm' = MapDelete(refm, key)
    /\ UNCHANGED buf

Get(key) ==
    /\ GuardFree
    /\ LET r == GetWithoutLock(heap, cm_m, key) IN
        last' = [Started("Get", Contents, key) EXCEPT !.val = r[1], !.ok = r[2]]
    /\ UNCHANGED <<heapVars, lockVars, threadVars>>
    /\ UNCHANGED refm
    /\ UNCHANGED buf

Length ==
    /\ GuardFree
    /\ last' = [Started("Len", Contents, 0) EXCEPT !.n = LenWithoutLock(heap, cm_m)]
    /\ UNCHANGED <<heapVars, lockVars, threadVars>>
    /\ UNCHANGED refm
    /\ UNCHANGED buf

Clear ==
    /\ GuardFree
    /\ LET r == ClearWithoutLock(heap, cm_m, {ext}) IN Commit(r.heap, r.ref, ext)
    /\ last' = Started("Clear", Contents, 0)
    /\ UNCHANGED <<extKind, expSnap, lockVars, threadVars>>
    /\ refm' = EmptyMap
    /\ UNCHANGED buf

\* e := cm.Export(): the caller keeps the returned mapping in its variable
Export ==
    /\ GuardFree
    /\ LET r == ExportWithoutLock(heap, cm_m, {cm_m}) IN
        /\ Commit(r.heap, cm_m, r.ref)
        /\ expSnap' = Deref(r.heap, r.ref)
    /\ extKind' = "exported"
    /\ last' = Started("Export", Contents, 0)
    /\ UNCHANGED <<lockVars, threadVars>>
    /\ UNCHANGED refm
    /\ UNCHANGED buf

\* cm.m = maps.Clone(e) in place of cm.m = e
ImportByCopy ==
    /\ GuardFree
    /\ LET new == Fresh({ext}) IN
          Commit([heap EXCEPT ![new] = Deref(heap, ext)], new, ext)
    /\ extKind' = IF ext = Nil THEN "none" ELSE "imported"
    /\ expSnap' = EmptyMap
    /\ last' = [Started("Import", Contents, 0) EXCEPT !.arg = Deref(heap, ext)]
    /\ UNCHANGED <<lockVars, threadVars>>
    /\ refm' = Deref(heap, ext)
    /\ UNCHANGED buf

\* cm.Import(e) with the map the caller holds in its variable (nil when it
\* holds none); the caller keeps its reference
Import ==
    /\ GuardFree
    /\ Commit(heap, ImportWithoutLock(heap, cm_m, ext), ext)
    /\ extKind' = IF ext = Nil THEN "none" ELSE "imported"
    /\ expSnap' = EmptyMap
    /\ last' = [Started("Import", Contents, 0) EXCEPT !.arg = Deref(heap, ext)]
    /\ UNCHANGED <<lockVars, threadVars>>
    /\ refm' = Deref(heap, ext)
    /\ UNCHANGED buf

\* cm.Import(map[K]V{...}) with a map literal the caller keeps no reference to
ImportLiteral(m) ==
    /\ GuardFree
    /\ LET new == Fresh({ext})
           h == [heap EXCEPT ![new] = m]
       IN Commit(h, ImportWithoutLock(h, cm_m, new), ext)
    /\ last' = [Started("Import", Contents, 0) EXCEPT !.arg = m]
    /\ UNCHANGED <<extKind, expSnap, lockVars, threadVars>>
    /\ refm' = m
    /\ UNCHANGED buf

\* m := make(map[K]V) in the caller
CallerMake ==
    /\ GuardFree
    /\ LET new == Fresh({cm_m}) IN Commit([heap EXCEPT ![new] = EmptyMap], cm_m, new)
    /\ extKind' = "made"
    /\ expSnap' = EmptyMap
    /\ last' = Started("CallerMake", Contents, 0)
    /\ UNCHANGED <<lockVars, threadVars>>
    /\ UNCHANGED refm
    /\ UNCHANGED buf

\* m[key] = value in the caller, on the map its variable refers to
CallerAssign(key, value) ==
    /\ GuardFree
    /\ ext # Nil
    /\ LET h == [heap EXCEPT ![ext] = MapAssign(heap[ext], key, value)] IN
        /\ Commit(h, cm_m, ext)
        /\ expSnap' = SeenAfter(h, ext, extKind)
    /\ last' = [Started("CallerAssign", Contents, key) EXCEPT !.val = value]
    /\ UNCHANGED <<extKind, lockVars, threadVars>>
    /\ refm' = Deref(heap', cm_m')
    /\ UNCHANGED buf

\* delete(m, key) in the caller
CallerDelete(key) ==
    /\ GuardFree
    /\ ext # Nil
    /\ LET h == [heap EXCEPT ![ext] = MapDelete(heap[ext], key)] IN
        /\ Commit(h, cm_m, ext)
        /\ expSnap' = SeenAfter(h, ext, extKind)
    /\ last' = Started("CallerDelete", Contents, key)
    /\ UNCHANGED <<extKind, lockVars, threadVars>>
    /\ refm' = Deref(heap', cm_m')
    /\ UNCHANGED buf

\* m = nil in the caller
CallerDrop ==
    /\ GuardFree
    /\ ext # Nil
    /\ Commit(heap, cm_m, Nil)
    /\ extKind' = "none"
    /\ expSnap' = EmptyMap
    /\ last' = Started("CallerDrop", Contents, 0)
    /\ UNCHANGED <<lockVars, threadVars>>
    /\ UNCHANGED refm
    /\ UNCHANGED buf

\* GobEncode: encoder.Encode(cm.m) under the shared lock
GobEncode ==
    /\ GuardFree
    /\ IF EncodeFails(Contents)
       THEN last' = [Started("Encode", Contents, 0) EXCEPT !.err = TRUE]
       ELSE \E ord \in Perms(DOMAIN Contents) :
               last' = [Started("Encode", Contents, 0) EXCEPT !.data = EncodeBytes(Contents, ord)]
    /\ UNCHANGED <<heapVars, lockVars, threadVars>>
    /\ UNCHANGED refm
    /\ UNCHANGED buf

\* the heap and cm.m after decoder.Decode(&cm.m) on data: the decoder stores
\* into the map cm.m refers to, and makes one when cm.m is nil
DecodeInto(h, c, roots, data) ==
    LET r == DecodeValue(Deref(h, c), data)
        dst == IF c # Nil THEN c ELSE IF r.alloc THEN Fresh(roots) ELSE Nil
    IN [heap |-> IF dst = Nil THEN h ELSE [h EXCEPT ![dst] = r.m], ref |-> dst, err |-> r.err]

\* GobDecode(data) under the exclusive lock
GobDecode(data) ==
    /\ GuardFree
    /\ LET r == DecodeInto(heap, cm_m, {ext}, data) IN
        /\ Commit(r.heap, r.ref, ext)
        /\ last' = [Started("Decode", Contents, 0) EXCEPT !.err = r.err, !.data = data]
    /\ UNCHANGED <<extKind, expSnap, lockVars, threadVars>>
    /\ refm' = Deref(heap', cm_m')
    /\ UNCHANGED buf

\* NewCacheMap(): cm.m = make(map[K]V), the guard unlocked
Init ==
    /\ heap = [i \in MapIds |-> EmptyMap]
    /\ cm_m = 1
    /\ ext = Nil
    /\ extKind = "none"
    /\ expSnap = EmptyMap
    /\ last = NoCall
    /\ refm = EmptyMap
    /\ buf = <<>>
    /\ wOwner = NoThread
    /\ excl = {}
    /\ rcount = [t \in Threads |-> 0]
    /\ pc = [t \in Threads |-> "idle"]
    /\ call = [t \in Threads |-> NoCall]
    /\ snap = [t \in Threads |-> NoSnap]
    /\ held = [t \in Threads |-> "none"]

Next ==
    \/ \E k \in Keys, v \in Vals : Set(k, v)
    \/ \E k \in Keys : Delete(k)
    \/ \E k \in Keys : Get(k)
    \/ Length
    \/ Clear
    \/ Export
    \/ Import
    \/ \E m \in Maps : ImportLiteral(m)
    \/ CallerMake
    \/ \E k \in Keys, v \in Vals : CallerAssign(k, v)
    \/ \E k \in Keys : CallerDelete(k)
    \/ CallerDrop
    \/ GobEncode
    \/ \E d \in ShortInputs : GobDecode(d)

\* the single caller, with the maps it shares with the container
Spec == Init /\ [][Next]_vars

NextBasic ==
    \/ \E k \in Keys, v \in Vals : Set(k, v)
    \/ \E k \in Keys : Delete(k)
    \/ \E k \in Keys : Get(k)
    \/ Length
    \/ Clear
    \/ Import
    \/ \E m \in Maps : ImportLiteral(m)

\* the single caller using Set, Delete, Clear, Import, Get and Len only
SpecBasic == Init /\ [][NextBasic]_vars

NextAlias ==
    \/ \E k \in Keys : Set(k, MaxVal)
    \/ \E k \in Keys : Delete(k)
    \/ \E k \in Keys : Get(k)
    \/ Length
    \/ Clear
    \/ Import
    \/ CallerMake
    \/ \E k \in Keys : CallerAssign(k, Zero)
    \/ \E k \in Keys : CallerDelete(k)
    \/ CallerDrop

\* the single caller handing its own map to Import and keeping it; the
\* container stores one value, the caller another
SpecAlias == Init /\ [][NextAlias]_vars

\* the caller keeps the bytes GobEncode returned
KeepBytes ==
    /\ last.op = "Encode"
    /\ ~last.err
    /\ buf # last.data
    /\ buf' = last.data
    /\ UNCHANGED <<heapVars, last, refm, lockVars, threadVars>>

\* a container holding any mapping (or nil, after Import(nil)), and a caller
\* holding any of the byte sequences
InitCodec ==
    /\ \E m \in Maps : heap = [i \in MapIds |-> IF i = 1 THEN m ELSE EmptyMap]
    /\ cm_m \in {1, Nil}
    /\ cm_m = Nil => heap[1] = EmptyMap
    /\ ext = Nil
    /\ extKind = "none"
    /\ expSnap = EmptyMap
    /\ last = NoCall
    /\ refm = Deref(heap, cm_m)
    /\ buf \in DecodeInputs
    /\ wOwner = NoThread
    /\ excl = {}
    /\ rcount = [t \in Threads |-> 0]
    /\ pc = [t \in Threads |-> "idle"]
    /\ call = [t \in Threads |-> NoCall]
    /\ snap = [t \in Threads |-> NoSnap]
    /\ held = [t \in Threads |-> "none"]

NextCodec ==
    \/ GobEncode
    \/ KeepBytes
    \/ GobDecode(buf)
    \/ Clear

\* the single caller encoding and decoding, with every byte sequence
SpecCodec == InitCodec /\ [][NextCodec]_vars

\* ------------------------------------------------------ sync.RWMutex
\* RWMutex.Lock first takes the writers' mutex w; from then on the writer is
\* pending and new readers wait. It then waits for the active readers to
\* leave. RWMutex.Unlock hands the lock to the readers that waited meanwhile.

\* w is free
WFreeAlways == TRUE
WFree == wOwner = NoThread

\* every active reader has left
DrainedAlways == TRUE
Drained == \A u \in Threads : rcount[u] = 0

\* a lock with one mode only: a reader gets through when nobody is inside
CanReadAlone == wOwner = NoThread /\ \A u \in Threads : rcount[u] = 0

\* a lock that prefers readers: only a writer that holds the lock stops them
CanReadUnlessHeld == excl = {}

\* no writer holds or has requested the lock, so RLock gets through
CanReadAlways == TRUE
CanRead == wOwner = NoThread

WriterOps == {"Set", "Delete", "Clear", "Import", "Decode", "Lock"}
ReaderOps == {"Get", "Len", "Export", "Encode", "RLock"}

\* thread t calls a locked operation, or Lock() or RLock() itself
Call(t, name) ==
    /\ pc[t] = "idle"
    /\ held[t] = "none"
    /\ call' = [call EXCEPT ![t] = [NoCall EXCEPT !.op = name]]
    /\ pc' = [pc EXCEPT ![t] = IF name \in WriterOps THEN "lock" ELSE "rlock"]
    /\ UNCHANGED <<heapVars, last, refm, buf, lockVars, snap, held>>

\* where a thread goes on once the lock is granted: back to the caller of
\* Lock()/RLock(), or into the body of the locked operation
Granted(t) == IF call[t].op \in {"Lock", "RLock"} THEN "idle" ELSE "body"
HeldAfter(t) == IF call[t].op = "Lock" THEN "excl"
                ELSE IF call[t].op = "RLock" THEN "shared" ELSE held[t]

\* a reentrant lock: the thread that has w gets through again
LockWReentrant(t) ==
    /\ pc[t] = "lock"
    /\ WFree \/ wOwner = t
    /\ wOwner' = t
    /\ pc' = [pc EXCEPT ![t] = "drain"]
    /\ UNCHANGED <<heapVars, last, refm, buf, excl, rcount, call, snap, held>>

\* cm.lock.Lock(), first half: take w and become the pending writer
LockW(t) ==
    /\ pc[t] = "lock"
    /\ WFree
    /\ wOwner' = t
    /\ pc' = [pc EXCEPT ![t] = "drain"]
    /\ UNCHANGED <<heapVars, last, refm, buf, excl, rcount, call, snap, held>>

\* cm.lock.Lock(), second half: the readers have left, the lock is held
LockDrained(t) ==
    /\ pc[t] = "drain"
    /\ Drained
    /\ excl' = excl \cup {t}
    /\ pc' = [pc EXCEPT ![t] = Granted(t)]
    /\ held' = [held EXCEPT ![t] = HeldAfter(t)]
    /\ snap' = [snap EXCEPT ![t] = Snapshot(heap, cm_m)]
    /\ UNCHANGED <<heapVars, last, refm, buf, wOwner, rcount, call>>

\* cm.lock.RLock(): granted at once, or the reader waits for the writer
RLockTry(t) ==
    /\ pc[t] = "rlock"
    /\ IF CanRead
       THEN /\ rcount' = [rcount EXCEPT ![t] = @ + 1]
            /\ pc' = [pc EXCEPT ![t] = Granted(t)]
            /\ held' = [held EXCEPT ![t] = HeldAfter(t)]
            /\ snap' = [snap EXCEPT ![t] = Snapshot(heap, cm_m)]
       ELSE /\ pc' = [pc EXCEPT ![t] = "rwait"]
            /\ UNCHANGED <<rcount, held, snap>>
    /\ UNCHANGED <<heapVars, last, refm, buf, wOwner, excl, call>>

\* cm.lock.Unlock() by thread t: the waiting readers are let in, w is freed
ReleaseW(t, backTo) ==
    LET woken == {u \in Threads : pc[u] = "rwait"} IN
    /\ t \in excl
    /\ excl' = excl \ {t}
    /\ wOwner' = NoThread
    /\ rcount' = [u \in Threads |-> IF u \in woken THEN rcount[u] + 1 ELSE rcount[u]]
    /\ pc' = [u \in Threads |-> IF u = t THEN backTo
                                ELSE IF u \in woken THEN Granted(u) ELSE pc[u]]
    /\ held' = [u \in Threads |-> IF u = t THEN "none"
                                  ELSE IF u \in woken THEN HeldAfter(u) ELSE held[u]]
    /\ snap' = [u \in Threads |-> IF u = t THEN NoSnap
                                  ELSE IF u \in woken THEN Snapshot(heap, cm_m) ELSE snap[u]]

\* cm.lock.RUnlock() by thread t
ReleaseR(t, backTo) ==
    /\ rcount[t] > 0
    /\ rcount' = [rcount EXCEPT ![t] = @ - 1]
    /\ pc' = [pc EXCEPT ![t] = backTo]
    /\ held' = [held EXCEPT ![t] = "none"]
    /\ snap' = [snap EXCEPT ![t] = NoSnap]
    /\ UNCHANGED <<wOwner, excl>>

\* the deferred cm.Unlock() of Set, Delete, Clear, Import and GobDecode
DeferredUnlock(t) ==
    /\ pc[t] = "unlock"
    /\ ReleaseW(t, "idle")
    /\ call' = [call EXCEPT ![t] = NoCall]
    /\ UNCHANGED <<heapVars, last, refm, buf>>

\* the deferred cm.RUnlock() of Get, Len, Export and GobEncode
DeferredRUnlock(t) ==
    /\ pc[t] = "runlock"
    /\ ReleaseR(t, "idle")
    /\ call' = [call EXCEPT ![t] = NoCall]
    /\ UNCHANGED <<heapVars, last, refm, buf>>

\* Unlock() called by the thread that called Lock()
Unlock(t) ==
    /\ pc[t] = "idle"
    /\ held[t] = "excl"
    /\ ReleaseW(t, "idle")
    /\ call' = [call EXCEPT ![t] = [NoCall EXCEPT !.op = "Unlock", !.key = call[t].key,
                                      !.val = call[t].val, !.wrote = call[t].wrote]]
    /\ UNCHANGED <<heapVars, last, refm, buf>>

\* RUnlock() called by the thread that called RLock()
RUnlock(t) ==
    /\ pc[t] = "idle"
    /\ held[t] = "shared"
    /\ ReleaseR(t, "idle")
    /\ call' = [call EXCEPT ![t] = [NoCall EXCEPT !.op = "RUnlock"]]
    /\ UNCHANGED <<heapVars, last, refm, buf>>

\* ------------------------------------------------------- the threads
\* A thread runs the body of a locked operation between its Lock/RLock and
\* the deferred Unlock/RUnlock, or calls a WithoutLock variant itself while
\* it holds the lock it took with Lock() or RLock().
\* the body of a locked operation run before its Lock()/RLock() returned
InBodyEarly(t, name) == pc[t] \in {"lock", "rlock", "body"} /\ call[t].op = name
InBody(t, name) == pc[t] = "body" /\ call[t].op = name
Holds(t, modes) == pc[t] = "idle" /\ held[t] \in modes
AfterBody(t) == IF pc[t] # "body" THEN pc[t]
                ELSE IF call[t].op \in WriterOps THEN "unlock" ELSE "runlock"

\* an error return that skips the deferred release
RanLeaky(t, rec, h, c) ==
    /\ Commit(h, c, ext)
    /\ call' = [call EXCEPT ![t] = rec]
    /\ snap' = [snap EXCEPT ![t] = Snapshot(h, c)]
    /\ pc' = [pc EXCEPT ![t] = IF rec.err THEN "idle" ELSE AfterBody(t)]
    /\ UNCHANGED <<extKind, expSnap, last, refm, buf, lockVars, held>>

\* thread t finished a body: the heap is h, cm.m is c, the call record is rec
Ran(t, rec, h, c) ==
    /\ Commit(h, c, ext)
    /\ call' = [call EXCEPT ![t] = rec]
    /\ snap' = [snap EXCEPT ![t] = Snapshot(h, c)]
    /\ pc' = [pc EXCEPT ![t] = AfterBody(t)]
    /\ UNCHANGED <<extKind, expSnap, last, refm, buf, lockVars, held>>

\* the call record of the body thread t runs, under the name of the locked
\* operation it is in or of the WithoutLock variant it called
Body(t, name, direct, k, isWrite) ==
    [Started(IF pc[t] = "body" THEN name ELSE direct, Contents, k)
        EXCEPT !.wrote = isWrite \/ (pc[t] # "body" /\ call[t].wrote)]

TSet(t, key, value) ==
    /\ InBody(t, "Set") \/ Holds(t, {"excl"})
    /\ LET r == SetWithoutLock(heap, cm_m, key, value) IN
        Ran(t, [Body(t, "Set", "SetWithoutLock", key, TRUE)
                    EXCEPT !.val = value, !.panic = r.panic], r.heap, cm_m)

TDelete(t, key) ==
    /\ InBody(t, "Delete") \/ Holds(t, {"excl"})
    /\ Ran(t, Body(t, "Delete", "DeleteWithoutLock", key, TRUE),
           DeleteWithoutLock(heap, cm_m, key), cm_m)

TGet(t, key) ==
    /\ InBody(t, "Get") \/ Holds(t, {"excl", "shared"})
    /\ LET r == GetWithoutLock(heap, cm_m, key) IN
        Ran(t, [Body(t, "Get", "GetWithoutLock", key, FALSE)
                    EXCEPT !.val = r[1], !.ok = r[2]], heap, cm_m)

TLen(t) ==
    /\ InBody(t, "Len") \/ Holds(t, {"excl", "shared"})
    /\ Ran(t, [Body(t, "Len", "LenWithoutLock", 0, FALSE)
                   EXCEPT !.n = LenWithoutLock(heap, cm_m)], heap, cm_m)

TClear(t) ==
    /\ InBody(t, "Clear") \/ Holds(t, {"excl"})
    /\ LET r == ClearWithoutLock(heap, cm_m, {ext}) IN
        Ran(t, Body(t, "Clear", "ClearWithoutLock", 0, TRUE), r.heap, r.ref)

\* the thread drops the mapping it gets; the call record keeps its entries
TExport(t) ==
    /\ InBody(t, "Export") \/ Holds(t, {"excl", "shared"})
    /\ LET r == ExportWithoutLock(heap, cm_m, {cm_m, ext}) IN
        Ran(t, [Body(t, "Export", "ExportWithoutLock", 0, FALSE)
                    EXCEPT !.arg = Deref(r.heap, r.ref)], heap, cm_m)

\* Import of a map literal
TImport(t, m) ==
    /\ InBody(t, "Import") \/ Holds(t, {"excl"})
    /\ LET new == Fresh({ext})
           h == [heap EXCEPT ![new] = m]
       IN Ran(t, [Body(t, "Import", "ImportWithoutLock", 0, TRUE) EXCEPT !.arg = m],
              h, ImportWithoutLock(h, cm_m, new))

\* Import of a nil map
TImportNil(t) ==
    /\ InBody(t, "Import") \/ Holds(t, {"excl"})
    /\ Ran(t, Body(t, "Import", "ImportWithoutLock", 0, TRUE),
           heap, ImportWithoutLock(heap, cm_m, Nil))

TEncode(t) ==
    /\ InBody(t, "Encode")
    /\ IF EncodeFails(Contents)
       THEN Ran(t, [Body(t, "Encode", "Encode", 0, FALSE) EXCEPT !.err = TRUE], heap, cm_m)
       ELSE \E ord \in Perms(DOMAIN Contents) :
               Ran(t, [Body(t, "Encode", "Encode", 0, FALSE)
                           EXCEPT !.data = EncodeBytes(Contents, ord)], heap, cm_m)

TDecode(t, data) ==
    /\ InBody(t, "Decode")
    /\ LET r == DecodeInto(heap, cm_m, {ext}, data) IN
        Ran(t, [Body(t, "Decode", "Decode", 0, TRUE) EXCEPT !.err = r.err, !.data = data],
            r.heap, r.ref)

\* the messages the threads hand to GobDecode: the empty mapping, one entry,
\* and the latter cut short
LockMessages ==
    LET one == EncodeBytes(MapAssign(EmptyMap, 1, Zero), <<1>>)
    IN {EncodeBytes(EmptyMap, <<>>), one, SubSeq(one, 1, Len(one) - 2)}

\* the bodies; the arguments are kept to one key, a serialisable and an
\* unserialisable value, and the messages above
Bodies(t) ==
    \/ \E v \in {Zero, Opaque} : TSet(t, 1, v)
    \/ TDelete(t, 1)
    \/ TGet(t, 1)
    \/ TLen(t)
    \/ TClear(t)
    \/ TExport(t)
    \/ TImport(t, EmptyMap)
    \/ TImportNil(t)
    \/ TEncode(t)
    \/ \E d \in LockMessages : TDecode(t, d)

\* the steps of a thread inside Lock(), RLock() or a locked operation, but
\* for getting hold of w
OpSteps(t) ==
    \/ LockDrained(t)
    \/ RLockTry(t)
    \/ pc[t] = "body" /\ Bodies(t)
    \/ DeferredUnlock(t)
    \/ DeferredRUnlock(t)

\* all threads but one call any of the operations
NextLock ==
    \E t \in Callers :
        \/ \E name \in WriterOps \cup ReaderOps : Call(t, name)
        \/ LockW(t)
        \/ LockDrained(t)
        \/ RLockTry(t)
        \/ DeferredUnlock(t)
        \/ DeferredRUnlock(t)
        \/ Unlock(t)
        \/ RUnlock(t)
        \/ Bodies(t)

\* threads calling the operations concurrently
SpecLock == Init /\ [][NextLock]_vars

\* ------------------------------ WithoutLock variants called directly
\* A WithoutLock variant has no Lock, RLock, Unlock or RUnlock in it. Here a
\* thread calls it in any state of the guard, holding the lock or not.

\* a variant that waits until no other thread holds the exclusive lock
DirectWhenFree(t) == pc[t] = "idle" /\ excl \subseteq {t}

\* thread t can call a WithoutLock variant: it is not inside another call
Direct(t) == pc[t] = "idle"

\* thread t holds the lock the access needs
Synced(t, isWrite) == held[t] = "excl" \/ (~isWrite /\ held[t] = "shared")

\* An access without the lock is a data race. What it finds in the map is
\* then not determined: the entries as they are, or any other entries.
RaceViews(t, isWrite) ==
    IF Synced(t, isWrite) THEN {Contents}
    ELSE {Contents, EmptyMap, MapAssign(EmptyMap, 1, Zero)}

\* the heap with the map behind c read as m
View(h, c, m) == IF c = Nil THEN h ELSE [h EXCEPT ![c] = m]

USet(t, key, value) ==
    /\ Direct(t)
    /\ \E m \in RaceViews(t, TRUE) :
          LET r == SetWithoutLock(View(heap, cm_m, m), cm_m, key, value) IN
            Ran(t, [Body(t, "Set", "SetWithoutLock", key, TRUE)
                        EXCEPT !.val = value, !.panic = r.panic], r.heap, cm_m)

UDelete(t, key) ==
    /\ Direct(t)
    /\ \E m \in RaceViews(t, TRUE) :
          Ran(t, Body(t, "Delete", "DeleteWithoutLock", key, TRUE),
              DeleteWithoutLock(View(heap, cm_m, m), cm_m, key), cm_m)

UGet(t, key) ==
    /\ Direct(t)
    /\ \E m \in RaceViews(t, FALSE) :
          LET r == GetWithoutLock(View(heap, cm_m, m), cm_m, key) IN
            Ran(t, [Body(t, "Get", "GetWithoutLock", key, FALSE)
                        EXCEPT !.val = r[1], !.ok = r[2]], heap, cm_m)

ULen(t) ==
    /\ Direct(t)
    /\ \E m \in RaceViews(t, FALSE) :
          Ran(t, [Body(t, "Len", "LenWithoutLock", 0, FALSE)
                      EXCEPT !.n = LenWithoutLock(View(heap, cm_m, m), cm_m)], heap, cm_m)

\* the assignment of cm.m itself: the map it replaces is not read
UClear(t) ==
    /\ Direct(t)
    /\ LET r == ClearWithoutLock(heap, cm_m, {ext}) IN
          Ran(t, Body(t, "Clear", "ClearWithoutLock", 0, TRUE), r.heap, r.ref)

UExport(t) ==
    /\ Direct(t)
    /\ \E m \in RaceViews(t, FALSE) :
          LET r == ExportWithoutLock(View(heap, cm_m, m), cm_m, {cm_m, ext}) IN
            Ran(t, [Body(t, "Export", "ExportWithoutLock", 0, FALSE)
                        EXCEPT !.arg = Deref(r.heap, r.ref)], heap, cm_m)

\* ImportWithoutLock of a map literal
UImport(t, m) ==
    /\ Direct(t)
    /\ LET new == Fresh({ext})
           h == [heap EXCEPT ![new] = m]
       IN Ran(t, [Body(t, "Import", "ImportWithoutLock", 0, TRUE) EXCEPT !.arg = m],
              h, ImportWithoutLock(h, cm_m, new))

\* ImportWithoutLock of a nil map
UImportNil(t) ==
    /\ Direct(t)
    /\ Ran(t, Body(t, "Import", "ImportWithoutLock", 0, TRUE),
           heap, ImportWithoutLock(heap, cm_m, Nil))

\* the Go runtime finds the map accessed without the lock by thread t while
\* another access is under way and stops the program (fatal error:
\* concurrent map read and map write)
UAbort(t) ==
    /\ Direct(t)
    /\ ~Synced(t, TRUE)
    /\ pc' = [u \in Threads |-> "fatal"]
    /\ UNCHANGED <<heapVars, last, refm, buf, lockVars, call, snap, held>>

WithoutLockNames == {"GetWithoutLock", "SetWithoutLock", "DeleteWithoutLock", "LenWithoutLock",
                     "ClearWithoutLock", "ExportWithoutLock", "ImportWithoutLock"}

NextUnlocked ==
    \/ \E t \in Threads :
        \/ \E name \in {"Lock", "RLock"} : Call(t, name)
        \/ LockW(t)
        \/ LockDrained(t)
        \/ RLockTry(t)
        \/ Unlock(t)
        \/ RUnlock(t)
    \/ \E t \in Threads \ Callers :
        \/ USet(t, 1, Zero)
        \/ UDelete(t, 1)
        \/ UGet(t, 1)
        \/ ULen(t)
        \/ UClear(t)
        \/ UExport(t)
        \/ UImport(t, EmptyMap)
        \/ UImportNil(t)
        \/ UAbort(t)

\* the threads take and release the lock themselves, and one of them calls
\* the WithoutLock variants whether it holds the lock or not
SpecUnlocked == Init /\ [][NextUnlocked]_vars

\* ------------------------------------------------- readers only
\* a container holding any mapping
InitReaders ==
    /\ \E m \in Maps : heap = [i \in MapIds |-> IF i = 1 THEN m ELSE EmptyMap]
    /\ cm_m = 1
    /\ ext = Nil
    /\ extKind = "none"
    /\ expSnap = EmptyMap
    /\ last = NoCall
    /\ refm = Deref(heap, cm_m)
    /\ buf = <<>>
    /\ wOwner = NoThread
    /\ excl = {}
    /\ rcount = [t \in Threads |-> 0]
    /\ pc = [t \in Threads |-> "idle"]
    /\ call = [t \in Threads |-> NoCall]
    /\ snap = [t \in Threads |-> NoSnap]
    /\ held = [t \in Threads |-> "none"]

\* the steps of a thread inside Get: RLock, the lookup, the deferred RUnlock
GetSteps(t) ==
    \/ RLockTry(t)
    \/ \E k \in Keys : TGet(t, k)
    \/ DeferredRUnlock(t)

NextReaders ==
    \E t \in Threads :
        \/ Call(t, "Get")
        \/ GetSteps(t)

\* every thread calls Get, any number of times, and no thread anything else;
\* a thread inside Get is scheduled again
SpecReaders ==
    InitReaders /\ [][NextReaders]_vars /\ \A t \in Threads : WF_vars(GetSteps(t))

NextRead ==
    \/ \E k \in Keys : Get(k)
    \/ Length
    \/ Export
    \/ GobEncode
    \/ Import

\* the single caller reading a container that holds any mapping; Import
\* hands it nil, or the mapping Export returned
SpecRead == InitReaders /\ [][NextRead]_vars

\* A fair scheduler and a fair lock: a thread inside a call is scheduled
\* again, a thread that took the lock with Lock() or RLock() calls Unlock()
\* or RUnlock() in the end, and a thread waiting for w gets it when it is
\* free again and again.
Fairness ==
    \A t \in Callers :
        /\ WF_vars(OpSteps(t))
        /\ SF_vars(LockW(t))
        /\ WF_vars(Unlock(t))
        /\ WF_vars(RUnlock(t))

\* all threads but one call Set, Delete, Get, Encode, Decode, Lock() and
\* RLock(); Encode fails on the unserialisable value and Decode on the
\* message cut short
NextFair ==
    \E t \in Callers :
        \/ \E name \in {"Set", "Delete", "Get", "Encode", "Decode", "Lock", "RLock"} :
              Call(t, name)
        \/ LockW(t)
        \/ LockDrained(t)
        \/ RLockTry(t)
        \/ DeferredUnlock(t)
        \/ DeferredRUnlock(t)
        \/ Unlock(t)
        \/ RUnlock(t)
        \/ InBody(t, "Set") /\ TSet(t, 1, Opaque)
        \/ InBody(t, "Delete") /\ TDelete(t, 1)
        \/ InBody(t, "Get") /\ TGet(t, 1)
        \/ TEncode(t)
        \/ \E d \in LockMessages : TDecode(t, d)

SpecFair == Init /\ [][NextFair]_vars /\ Fairness

\* ------------------------------------------- readers and a writer
\* every thread calls Get, Set and RLock()/RUnlock()
NextPending ==
    \E t \in Threads :
        \/ \E name \in {"Get", "Set", "RLock"} : Call(t, name)
        \/ LockW(t)
        \/ LockDrained(t)
        \/ RLockTry(t)
        \/ DeferredUnlock(t)
        \/ DeferredRUnlock(t)
        \/ RUnlock(t)
        \/ InBody(t, "Get") /\ TGet(t, 1)
        \/ InBody(t, "Set") /\ TSet(t, 1, Zero)

\* a thread inside a call is scheduled again and a thread that called RLock()
\* calls RUnlock() in the end; nothing is assumed about who gets w
SpecPending ==
    /\ Init /\ [][NextPending]_vars
    /\ \A t \in Threads : WF_vars(OpSteps(t)) /\ WF_vars(RUnlock(t))

\* ------------------------------- a locked operation called under Lock()
LockedOps == (WriterOps \cup ReaderOps) \ {"Lock", "RLock"}

\* thread t, between its Lock() and its Unlock(), calls a locked operation
CallHolding(t, name) ==
    /\ pc[t] = "idle"
    /\ held[t] = "excl"
    /\ call' = [call EXCEPT ![t] = [NoCall EXCEPT !.op = name]]
    /\ pc' = [pc EXCEPT ![t] = IF name \in WriterOps THEN "lock" ELSE "rlock"]
    /\ UNCHANGED <<heapVars, last, refm, buf, lockVars, snap, held>>

\* every thread calls Lock(), Get and Set; a thread that holds the lock it
\* took with Lock() calls GetWithoutLock or SetWithoutLock, or one of the
\* locked operations, or Unlock()
NextReentrant ==
    \E t \in Threads :
        \/ \E name \in {"Lock", "Get", "Set"} : Call(t, name)
        \/ \E name \in LockedOps : CallHolding(t, name)
        \/ LockW(t)
        \/ LockDrained(t)
        \/ RLockTry(t)
        \/ DeferredUnlock(t)
        \/ DeferredRUnlock(t)
        \/ Unlock(t)
        \/ TGet(t, 1)
        \/ TSet(t, 1, Zero)

SpecReentrant == Init /\ [][NextReentrant]_vars

\* ------------------------------------------- the compound operation
\* Every thread runs once
\*   cm.Lock(); _, ok := cm.GetWithoutLock(k)
\*   if !ok { cm.SetWithoutLock(k, v) }; cm.Unlock()
CStart(t) ==
    /\ call[t].op = "none"
    /\ Call(t, "Lock")

CGet(t, key) ==
    /\ call[t].op = "Lock"
    /\ TGet(t, key)

CSet(t, value) ==
    /\ call[t].op = "GetWithoutLock"
    /\ ~call[t].ok
    /\ TSet(t, call[t].key, value)

CUnlock(t) ==
    /\ \/ call[t].op = "SetWithoutLock"
       \/ call[t].op = "GetWithoutLock" /\ call[t].ok
    /\ Unlock(t)

NextCompound ==
    \E t \in Threads :
        \/ CStart(t)
        \/ LockW(t)
        \/ LockDrained(t)
        \/ \E k \in Keys : CGet(t, k)
        \/ \E v \in 0..MaxVal : CSet(t, v)
        \/ CUnlock(t)

\* threads running the compound operation concurrently
SpecCompound == Init /\ [][NextCompound]_vars

\* ------------------------------------------------------------ properties
\* what Export() returns in the current state
Exported == LET r == ExportWithoutLock(heap, cm_m, {cm_m}) IN Deref(r.heap, r.ref)

\* C1: after a successful Decode of the bytes Encode produces for a mapping
\* m, Export() equals exactly m, whatever the container held before.
C1_DecodeReplaces ==
    \A m \in SerMaps :
        (last.op = "Decode" /\ ~last.err /\ last.data \in Encodings(m)) => Exported = m

\* C2: a Decode that returns an error leaves Export() as it was before the call.
C2_FailedDecodeKeepsContents ==
    (last.op = "Decode" /\ last.err) => Exported = last.pre

\* C3: Decode of the bytes Encode produces for a mapping m, into a container
\* that holds no entry (new or cleared), succeeds and leaves Export() = m.
C3_RoundTrip ==
    \A m \in SerMaps :
        (last.op = "Decode" /\ last.pre = EmptyMap /\ last.data \in Encodings(m))
            => (~last.err /\ Exported = m)

C3_Witness ==
    /\ last.op = "Decode"
    /\ last.pre = EmptyMap
    /\ last.data \in ValidBytes
    /\ MapLen(Exported) = MaxKey

\* C7: after Import(m), Export() equals exactly m: no key of the prior
\* contents that is not in m remains.
C7_ImportReplaces ==
    last.op = "Import" => Exported = last.arg

C7_Witness ==
    /\ last.op = "Import"
    /\ last.arg # EmptyMap
    /\ \E k \in DOMAIN last.pre : k \notin DOMAIN last.arg /\ k \notin DOMAIN Exported

C9_AgreesWithReference ==
    /\ last.op = "Get" => <<last.val, last.ok>> = MapLookup(refm, last.key)
    /\ last.op = "Len" => last.n = MapLen(refm)

\* C10: Delete(k) twice leaves what Delete(k) once leaves; Delete of an absent
\* key changes nothing and does not fail; after Delete(k), Get(k) misses and
\* every other key keeps its value.
C10_DeleteIdempotentTotal ==
    last.op = "Delete" =>
        /\ ~last.panic
        /\ Deref(DeleteWithoutLock(heap, cm_m, last.key), cm_m) = Contents
        /\ (last.key \notin DOMAIN last.pre => Contents = last.pre)
        /\ GetWithoutLock(heap, cm_m, last.key) = <<Zero, FALSE>>
        /\ \A j \in Keys \ {last.key} : MapLookup(Contents, j) = MapLookup(last.pre, j)

C10_Witness ==
    /\ last.op = "Delete"
    /\ last.key \in DOMAIN last.pre
    /\ MapLen(last.pre) = MaxKey

\* the threads holding the exclusive lock
ExclHolders == excl
\* the number of shared holds
SharedHolds(t) == rcount[t]
\* thread t is inside the guard: in a body, before its deferred release, or
\* between its own Lock()/RLock() and Unlock()/RUnlock()
InGuard(t) == pc[t] \in {"body", "unlock", "runlock"} \/ Holds(t, {"excl", "shared"})

\* C4: in every reachable state the guard has at most one exclusive holder,
\* and no shared holder while there is an exclusive holder.
C4_GuardExclusion ==
    /\ Cardinality(ExclHolders) <= 1
    /\ ExclHolders # {} => \A u \in Threads : SharedHolds(u) = 0

C4_Witness ==
    /\ \E t \in Threads : t \in ExclHolders /\ pc[t] = "unlock"
    /\ \A u \in Callers \ ExclHolders : pc[u] \in {"lock", "rwait"}

\* what the call record c must show when the operation ran alone on
\* contents c.pre and left contents m
Outcome(c, m) ==
    CASE c.op = "Get" -> <<c.val, c.ok>> = MapLookup(c.pre, c.key) /\ m = c.pre
      [] c.op = "Len" -> c.n = MapLen(c.pre) /\ m = c.pre
      [] c.op = "Export" -> c.arg = c.pre /\ m = c.pre
      [] c.op = "Encode" -> /\ m = c.pre
                            /\ IF \E k \in DOMAIN c.pre : c.pre[k] = Opaque
                               THEN c.err
                               ELSE ~c.err /\ DecodeValue(EmptyMap, c.data).m = c.pre
      [] c.op = "Set" -> m = IF c.panic THEN c.pre ELSE MapAssign(c.pre, c.key, c.val)
      [] c.op = "Delete" -> m = MapDelete(c.pre, c.key)
      [] c.op = "Clear" -> m = EmptyMap
      [] c.op = "Import" -> m = c.arg
      [] c.op = "Decode" -> m = DecodeValue(c.pre, c.data).m /\ c.err = DecodeValue(c.pre, c.data).err
      [] OTHER -> TRUE

\* C5: the locked operations are linearizable: each one runs on the contents
\* it found when it got the lock, nothing else touches the contents until it
\* releases the lock, and what it returns and leaves is what the operation
\* alone returns and leaves; while a writer is inside, no other thread is.
C5_Linearizable ==
    \A t \in Threads :
        /\ InGuard(t) => (Contents = snap[t].m /\ cm_m = snap[t].ref)
        /\ pc[t] \in {"unlock", "runlock"} => Outcome(call[t], Contents)
        /\ (pc[t] \in {"body", "unlock"} /\ call[t].op \in WriterOps)
              => \A u \in Threads \ {t} : ~InGuard(u)

C5_Witness ==
    \E t \in Threads, u \in Threads :
        /\ pc[t] = "unlock" /\ call[t].op = "Set" /\ Contents # call[t].pre
        /\ pc[u] = "rwait" /\ call[u].op = "Get"

\* C6: in the compound operation no other thread touches the entries between
\* the get and the set: every set finds the key still absent, and when all
\* threads are done exactly one thread per key has inserted, and its value
\* is the one every thread saw or stored.
CDone(t) == call[t].op = "Unlock"
C6_CompoundAtomic ==
    /\ \A t \in Threads : Holds(t, {"excl"}) => Contents = snap[t].m
    /\ \A t \in Threads : call[t].op = "SetWithoutLock" => call[t].key \notin DOMAIN call[t].pre
    /\ (\A t \in Threads : CDone(t)) =>
          \A t \in Threads :
              /\ Cardinality({u \in Threads : call[u].key = call[t].key /\ call[u].wrote}) = 1
              /\ MapLookup(Contents, call[t].key) = <<call[t].val, TRUE>>

C6_Witness ==
    /\ \A t \in Threads : CDone(t) /\ call[t].key = call[1].key
    /\ call[1].wrote

\* C11: after Clear(), from any state, Len() is 0, Get(k) misses for every key
\* (those present before the call among them), and a Set the container gets
\* next does what it does on a newly constructed container: it does not fail
\* and leaves exactly the one entry.
C11_ClearEmpties ==
    last.op = "Clear" =>
        /\ LenWithoutLock(heap, cm_m) = 0
        /\ \A k \in Keys : GetWithoutLock(heap, cm_m, k) = <<Zero, FALSE>>
        /\ \A k \in Keys, v \in Vals :
              LET r == SetWithoutLock(heap, cm_m, k, v)
                  new == SetWithoutLock([i \in MapIds |-> EmptyMap], 1, k, v)
              IN /\ ~r.panic
                 /\ r.panic = new.panic
                 /\ Deref(r.heap, cm_m) = Deref(new.heap, 1)

C11_Witness ==
    /\ last.op = "Clear"
    /\ MapLen(last.pre) = MaxKey
    /\ Contents = EmptyMap

\* C12: when the threads call Get and no thread takes the exclusive lock, no
\* reader waits for another (RLock is granted at once), every Get returns,
\* the contents never change and each Get returns what they hold for its key.
C12_ReadersShare ==
    /\ [](\A t \in Threads :
            /\ pc[t] # "rwait"
            /\ pc[t] = "rlock" => CanRead
            /\ Contents = refm
            /\ pc[t] = "runlock" => <<call[t].val, call[t].ok>> = MapLookup(refm, call[t].key))
    /\ \A t \in Threads : (pc[t] # "idle") ~> (pc[t] = "idle")

\* all the threads are inside their critical sections at once
C12_Witness ==
    /\ \A t \in Threads : pc[t] \in {"body", "runlock"} /\ SharedHolds(t) = 1
    /\ \E t \in Threads : pc[t] = "body"
    /\ \E t \in Threads : pc[t] = "runlock" /\ call[t].ok

\* C13: a call of Get, Len, Export or Encode leaves the container holding the
\* map it held, with the entries it had, whatever the state and the key, and
\* also when Encode returns an error.
C13_ReadsKeepContents ==
    [][last'.op \in {"Get", "Len", "Export", "Encode"}
          => (cm_m' = cm_m /\ Contents' = Contents)]_vars

C13_Witness ==
    /\ last.op = "Encode"
    /\ last.err
    /\ MapLen(Contents) = MaxKey
    /\ Contents = last.pre

\* C14: a WithoutLock variant never waits for the guard and never changes it:
\* a thread outside any other call can run each of the seven in every state
\* of the guard, and the step that runs one leaves the guard's state and the
\* lock the thread holds as they were and ends the call.
C14_WithoutLockFrame ==
    /\ [](\A t \in Threads : pc[t] = "idle" =>
            /\ ENABLED UGet(t, 1)
            /\ ENABLED USet(t, 1, Zero)
            /\ ENABLED UDelete(t, 1)
            /\ ENABLED ULen(t)
            /\ ENABLED UClear(t)
            /\ ENABLED UExport(t)
            /\ ENABLED UImport(t, EmptyMap))
    /\ [][\A t \in Threads :
            (call'[t] # call[t] /\ call'[t].op \in WithoutLockNames)
                => /\ pc[t] = "idle" /\ pc'[t] = "idle"
                   /\ wOwner' = wOwner /\ excl' = excl /\ rcount' = rcount
                   /\ held' = held]_vars

\* thread u took the exclusive lock on an empty container and still holds
\* it, a reader waits for it, and thread t, holding nothing, has inserted
C14_Witness ==
    \E t \in Threads, u \in Threads :
        /\ u \in excl /\ call[u].op = "Lock" /\ snap[u].m = EmptyMap
        /\ held[t] = "none" /\ pc[t] = "idle"
        /\ call[t].op = "SetWithoutLock" /\ ~call[t].panic
        /\ Contents # EmptyMap
        /\ \E w \in Threads : pc[w] = "rwait"

\* C15: in every state the public operations reach, Set(key, value) does not
\* fail and leaves Get(key) returning (value, true).
C15_SetInserts ==
    last.op = "Set" =>
        /\ ~last.panic
        /\ GetWithoutLock(heap, cm_m, last.key) = <<last.val, TRUE>>

\* C16: Import stores the caller's map m itself, not a copy. While cm.m is
\* m, a Set or Delete on the container changes m, and an entry the caller
\* assigns or deletes in m is what Get, Len and Export return; Get, Len, Set,
\* Delete and the caller's own changes leave cm.m being m. Clear puts a new
\* map in cm.m and leaves m with the entries it had.
C16_ImportShares ==
    [][LET m == Deref(heap, ext)
           k == last'.key
           v == last'.val
       IN /\ last'.op = "Import" => (ext' = ext /\ cm_m' = ext /\ Deref(heap', ext') = m)
          /\ (cm_m = ext /\ ext # Nil) =>
                /\ last'.op = "Set" =>
                      (cm_m' = ext' /\ Deref(heap', ext') = MapAssign(m, k, v))
                /\ last'.op = "Delete" =>
                      (cm_m' = ext' /\ Deref(heap', ext') = MapDelete(m, k))
                /\ last'.op = "Get" => (cm_m' = ext' /\ <<v, last'.ok>> = MapLookup(m, k))
                /\ last'.op = "Len" => (cm_m' = ext' /\ last'.n = MapLen(m))
                /\ last'.op = "CallerAssign" =>
                      /\ cm_m' = ext'
                      /\ GetWithoutLock(heap', cm_m', k) = <<v, TRUE>>
                      /\ LenWithoutLock(heap', cm_m') = MapLen(MapAssign(m, k, v))
                      /\ Exported' = MapAssign(m, k, v)
                /\ last'.op = "CallerDelete" =>
                      /\ cm_m' = ext'
                      /\ GetWithoutLock(heap', cm_m', k) = <<Zero, FALSE>>
                      /\ LenWithoutLock(heap', cm_m') = MapLen(MapDelete(m, k))
                      /\ Exported' = MapDelete(m, k)
                /\ last'.op = "Clear" =>
                      /\ ext' = ext /\ cm_m' # ext'
                      /\ Deref(heap', ext') = m
                      /\ Contents' = EmptyMap]_vars

\* the caller's map holds an entry the caller put and one a Set on the
\* container put
C16_Witness ==
    /\ extKind = "imported" /\ ext # Nil
    /\ last.op = "Set"
    /\ last.key \notin DOMAIN last.pre
    /\ MapLookup(Deref(heap, ext), last.key) = <<last.val, TRUE>>
    /\ \E j \in Keys : MapLookup(Deref(heap, ext), j) = <<Zero, TRUE>>
    /\ Exported = Deref(heap, ext)

\* C17: the entries are accessed under the guard only. A thread in the body
\* of Set, Delete, Clear, Import or Decode holds the exclusive lock and no
\* other thread holds the lock in any mode; a thread in the body of Get, Len,
\* Export or Encode holds the shared lock and no thread the exclusive one;
\* and every step that changes cm.m or an entry is taken while some thread
\* holds the exclusive lock and no thread the shared one.
C17_AccessUnderGuard ==
    /\ [](\A t \in Threads :
            /\ (pc[t] = "body" /\ call[t].op \in WriterOps) =>
                  /\ ExclHolders = {t}
                  /\ \A u \in Threads : SharedHolds(u) = 0
                  /\ \A u \in Threads \ {t} : pc[u] # "body"
            /\ (pc[t] = "body" /\ call[t].op \in ReaderOps) =>
                  /\ SharedHolds(t) > 0
                  /\ ExclHolders = {})
    /\ [][(cm_m' # cm_m \/ Contents' # Contents) =>
            /\ \E t \in ExclHolders :
                  \/ pc[t] = "body" /\ call[t].op \in WriterOps /\ pc'[t] = "unlock"
                  \/ Holds(t, {"excl"}) /\ pc'[t] = "idle"
            /\ ExclHolders' = ExclHolders
            /\ \A u \in Threads : SharedHolds(u) = 0]_vars

C17_Witness ==
    \E t \in Threads, u \in Threads :
        /\ pc[t] = "unlock" /\ call[t].op = "Decode" /\ Contents # call[t].pre
        /\ t \in ExclHolders
        /\ pc[u] = "rwait" /\ call[u].op = "Encode"

\* C18: a locked operation holds the lock it took until its deferred release
\* and that release gives back exactly this lock, on the error returns of
\* Encode and Decode too; the guard is free whenever no call is in progress
\* and no thread holds a lock it took itself; and with a fair lock every call
\* returns.
C18_LocksReleased ==
    /\ [](\A t \in Threads :
            /\ pc[t] = "unlock" => (t \in ExclHolders /\ SharedHolds(t) = 0)
            /\ pc[t] = "runlock" => (t \notin ExclHolders /\ SharedHolds(t) = 1))
    /\ []((\A t \in Threads : pc[t] = "idle" /\ held[t] = "none") => GuardFree)
    /\ [][\A t \in Threads :
            (pc[t] \in {"unlock", "runlock"} /\ pc'[t] = "idle") =>
                /\ t \notin ExclHolders' /\ SharedHolds(t)' = 0
                /\ pc[t] = "unlock" => wOwner' = NoThread]_vars
    /\ \A t \in Threads : (pc[t] # "idle") ~> (pc[t] = "idle")

\* Decode is about to return an error while Encode waits for the lock
C18_Witness ==
    \E t \in Threads, u \in Threads :
        /\ pc[t] = "unlock" /\ call[t].op = "Decode" /\ call[t].err
        /\ pc[u] = "rwait" /\ call[u].op = "Encode"

\* C19: from the moment a thread has w (it asked for the exclusive lock and
\* waits for the readers to leave, or holds the lock) until it releases the
\* lock, no shared acquisition is granted: a thread that asks waits. So the
\* readers inside leave and the waiting writer gets the lock, however many
\* readers keep asking.
C19_PendingWriterBlocksReaders ==
    /\ [][(wOwner # NoThread /\ wOwner' = wOwner) =>
            \A t \in Threads : SharedHolds(t)' <= SharedHolds(t)]_vars
    /\ [][\A t \in Threads :
            (pc[t] = "rlock" /\ pc'[t] # "rlock" /\ wOwner # NoThread) => pc'[t] = "rwait"]_vars
    /\ [](\A t \in Threads : pc[t] = "rwait" => wOwner # NoThread)
    /\ \A w \in Threads : (pc[w] = "drain") ~> (w \in ExclHolders)

\* a writer waits for a reader to leave and another reader waits for the writer
C19_Witness ==
    \E w \in Threads, r \in Threads, n \in Threads :
        /\ pc[w] = "drain" /\ call[w].op = "Set"
        /\ SharedHolds(r) = 1 /\ pc[r] = "body"
        /\ pc[n] = "rwait" /\ call[n].op = "Get"

\* C20: a thread that holds the lock it took with Lock() and calls a locked
\* operation never gets the lock a second time and never returns from the
\* call: it stays in the acquisition, still holding the lock. The same thread
\* can always run GetWithoutLock and SetWithoutLock, and these return.
C20_NotReentrant ==
    /\ [](\A t \in Threads : held[t] = "excl" => pc[t] \in {"idle", "lock", "rlock", "rwait"})
    /\ [][\A t \in Threads :
            (held[t] = "excl" /\ pc[t] # "idle") =>
                (pc'[t] # "idle" /\ held'[t] = "excl" /\ t \in ExclHolders')]_vars
    /\ [](\A t \in Threads :
            Holds(t, {"excl"}) => (ENABLED TGet(t, 1) /\ ENABLED TSet(t, 1, Zero)))
    /\ [][\A t \in Threads :
            (Holds(t, {"excl"}) /\ call'[t].op \in WithoutLockNames) =>
                (pc'[t] = "idle" /\ held'[t] = "excl")]_vars

\* the deadlock: a thread waits for the lock it holds itself, every other
\* thread waits for that lock, and no step is possible
C20_Witness ==
    /\ \E t \in Threads :
          /\ held[t] = "excl" /\ t \in ExclHolders
          /\ pc[t] \in {"lock", "rwait"}
          /\ call[t].op \in LockedOps
          /\ \A u \in Threads \ {t} : pc[u] \in {"lock", "rwait"}
    /\ ~ENABLED NextReentrant

====
